---- MODULE Spec2Model ----
(***************************************************************************)
(* Model of voice_server.py: an asyncio WebSocket server that runs one     *)
(* transcribe_handler coroutine per connection.  Each handler reads audio  *)
(* chunks, calls the (synchronous) recognizer on each, and sends the       *)
(* transcript back as a JSON message.  main() installs a SIGTERM handler   *)
(* that resolves the future `stop`, starts the server and awaits a second, *)
(* unrelated future.                                                       *)
(*                                                                         *)
(* All coroutines and callbacks run on one event loop thread: a step of    *)
(* the loop (accept, frame transfer, handler resumption, signal callback)  *)
(* can only happen while no handler is inside the blocking recognizer      *)
(* call.  The clients, the network and the operating system (signal        *)
(* delivery) are the environment and act at any time.                      *)
(***************************************************************************)
EXTENDS Integers, Sequences, FiniteSets, TLC

\* ---- bounds of the model ------------------------------------------------
NConns == 2        \* connections that clients may open
MaxChunks == 2     \* audio chunks sent by all clients together
MaxStream == 4     \* audio chunks sent on the connection of SessionSpec
MaxSignals == 2    \* SIGTERMs delivered to the process

Conns == 1..NConns
\* Audio payloads are opaque to the server: the k-th chunk sent on connection
\* c carries the payload <<c, k>>, so that every chunk is told apart from
\* every other.
Chunk(c, k) == <<c, k>>
NoChunk == <<>>

\* The loop thread is free (no handler is inside recognize_google).
NoOne == 0

VARIABLES
    serverState,  \* main(): "Starting", "Accepting", "BindFailed"
    banner,       \* TRUE once line 34 printed the startup banner
    stop,         \* the future `stop` of main(): "PENDING" or "FINISHED"
    sigPending,   \* SIGTERMs delivered by the OS, callback not yet run
    sigCount,     \* SIGTERMs delivered so far
    loopErrors,   \* exceptions raised by callbacks, reported by the loop
    running,      \* the connection whose handler blocks the loop, or NoOne
    client,       \* per connection, the peer: "idle", "connecting",
                  \*   "connected", "closed"
    clientSent,   \* per connection, the audio the peer has sent, in order
    wire,         \* per connection, frames sent and not yet read by the loop
    state,        \* per connection, the library's view: "none", "open",
                  \*   "closedOK" (close code 1000), "closedErr"
    messages,     \* per connection, chunks read and not yet taken by handler
    pc,           \* per connection, transcribe_handler: "none", "recv",
                  \*   "recognize", "done" (returned), "failed" (raised)
    cur,          \* per connection, the audio_chunk of the current iteration
    received,     \* per connection, the chunks processed and their outcome
    sent,         \* per connection, the messages written by websocket.send
    log           \* per connection, the lines printed by its handler

vars == <<serverState, banner, stop, sigPending, sigCount, loopErrors, running,
          client, clientSent, wire, state, messages, pc, cur, received, sent, log>>

mainVars == <<serverState, banner>>
sigVars == <<stop, sigPending, sigCount, loopErrors>>
peerVars == <<client, clientSent, wire>>
sessVars == <<state, messages, pc, cur, received, sent, log>>

\* ---- frames and values ---------------------------------------------------
DataFrame(a) == [t |-> "data", a |-> a]
CloseFrame == [t |-> "close", a |-> NoChunk]
AbortFrame == [t |-> "abort", a |-> NoChunk]

\* What the external recognizer answers for an audio payload it understands.
Text(a) == <<"text", a>>

\* json.dumps({"transcript": text})
Dumps(text) == [transcript |-> text]

\* The outcomes of lines 16-17 for one chunk.
Ok == "Ok"
UnknownValueError == "UnknownValueError"
RequestError == "RequestError"
OtherError == "OtherError"
Outcomes == {Ok, UnknownValueError, RequestError, OtherError}

LoopFree == running = NoOne

RECURSIVE TotalSent(_, _)
TotalSent(f, S) ==
    IF S = {} THEN 0
    ELSE LET c == CHOOSE x \in S : TRUE
         IN Len(f[c]) + TotalSent(f, S \ {c})

Init ==
    /\ serverState = "Starting"
    /\ banner = FALSE
    /\ stop = "PENDING"
    /\ sigPending = 0
    /\ sigCount = 0
    /\ loopErrors = 0
    /\ running = NoOne
    /\ client = [c \in Conns |-> "idle"]
    /\ clientSent = [c \in Conns |-> <<>>]
    /\ wire = [c \in Conns |-> <<>>]
    /\ state = [c \in Conns |-> "none"]
    /\ messages = [c \in Conns |-> <<>>]
    /\ pc = [c \in Conns |-> "none"]
    /\ cur = [c \in Conns |-> NoChunk]
    /\ received = [c \in Conns |-> <<>>]
    /\ sent = [c \in Conns |-> <<>>]
    /\ log = [c \in Conns |-> <<>>]

\* ---- main() ---------------------------------------------------------------
\* websockets.serve(...) binds the listener; the banner is printed and main
\* then awaits asyncio.Future(), a future nobody resolves.
Bind ==
    /\ serverState = "Starting"
    /\ LoopFree
    /\ serverState' = "Accepting"
    /\ banner' = TRUE
    /\ UNCHANGED <<sigVars, running, peerVars, sessVars>>

\* BindFail with the error swallowed: main goes on as if the listener were
\* bound.
BindFailIgnored ==
    /\ serverState = "Starting"
    /\ LoopFree
    /\ serverState' = "Accepting"
    /\ UNCHANGED <<banner, sigVars, running, peerVars, sessVars>>

\* The bind raises OSError: it leaves main() and asyncio.run(), the process exits.
BindFail ==
    /\ serverState = "Starting"
    /\ LoopFree
    /\ serverState' = "BindFailed"
    /\ UNCHANGED <<banner, sigVars, running, peerVars, sessVars>>

\* The OS delivers SIGTERM: the callback is queued on the loop.
Sigterm ==
    /\ serverState # "BindFailed"
    /\ sigCount < MaxSignals
    /\ sigCount' = sigCount + 1
    /\ sigPending' = sigPending + 1
    /\ UNCHANGED <<mainVars, stop, loopErrors, running, peerVars, sessVars>>

\* HandleSignal shutting the server down the way Server.close() does: the
\* connections are closed and their handlers end.
HandleSignalClosing ==
    /\ sigPending > 0
    /\ serverState # "BindFailed"
    /\ LoopFree
    /\ sigPending' = sigPending - 1
    /\ IF stop = "PENDING"
       THEN stop' = "FINISHED" /\ UNCHANGED loopErrors
       ELSE loopErrors' = loopErrors + 1 /\ UNCHANGED stop
    /\ state' = [c \in Conns |-> IF state[c] = "open" THEN "closedOK" ELSE state[c]]
    /\ pc' = [c \in Conns |-> IF pc[c] = "recv" THEN "done" ELSE pc[c]]
    /\ UNCHANGED <<mainVars, sigCount, running, peerVars,
                   messages, cur, received, sent, log>>

\* The loop runs the registered callback stop.set_result(None).  On a future
\* that is already done set_result raises InvalidStateError, which the loop
\* reports through its exception handler.
HandleSignal ==
    /\ sigPending > 0
    /\ serverState # "BindFailed"
    /\ LoopFree
    /\ sigPending' = sigPending - 1
    /\ IF stop = "PENDING"
       THEN stop' = "FINISHED" /\ UNCHANGED loopErrors
       ELSE loopErrors' = loopErrors + 1 /\ UNCHANGED stop
    /\ UNCHANGED <<mainVars, sigCount, running, peerVars, sessVars>>

\* ---- the peers ------------------------------------------------------------
\* A peer connects.  Connections are numbered in the order they are opened.
Connect(c) ==
    /\ client[c] = "idle"
    /\ \A d \in Conns : d < c => client[d] # "idle"
    /\ serverState = "Accepting"
    /\ client' = [client EXCEPT ![c] = "connecting"]
    /\ UNCHANGED <<mainVars, sigVars, running, clientSent, wire, sessVars>>

\* The peer sends its next chunk, while fewer than max chunks were sent.
SendChunk(c, max) ==
    /\ client[c] = "connected"
    /\ TotalSent(clientSent, Conns) < max
    /\ LET a == Chunk(c, Len(clientSent[c]) + 1)
       IN /\ clientSent' = [clientSent EXCEPT ![c] = Append(@, a)]
          /\ wire' = [wire EXCEPT ![c] = Append(@, DataFrame(a))]
    /\ UNCHANGED <<mainVars, sigVars, running, client, sessVars>>

ClientSend(c) == SendChunk(c, MaxChunks)

\* The peer closes normally (close code 1000) or the transport breaks.
ClientClose(c, frame) ==
    /\ client[c] = "connected"
    /\ client' = [client EXCEPT ![c] = "closed"]
    /\ wire' = [wire EXCEPT ![c] = Append(@, frame)]
    /\ UNCHANGED <<mainVars, sigVars, running, clientSent, sessVars>>

\* ---- the server side of a connection ---------------------------------------
\* The server accepts the connection and starts transcribe_handler for it,
\* which prints line 11 and waits for the first message.
Accept(c) ==
    /\ serverState = "Accepting"
    /\ LoopFree
    /\ client[c] = "connecting"
    /\ client' = [client EXCEPT ![c] = "connected"]
    /\ state' = [state EXCEPT ![c] = "open"]
    /\ pc' = [pc EXCEPT ![c] = "recv"]
    /\ log' = [log EXCEPT ![c] = Append(@, "established")]
    /\ UNCHANGED <<mainVars, sigVars, running, clientSent, wire,
                   messages, cur, received, sent>>

\* The payloads of the data frames of w, in order.
Payloads(w) ==
    LET d == SelectSeq(w, LAMBDA f : f.t = "data")
    IN [i \in 1..Len(d) |-> d[i].a]

\* The state of an open connection after the frames of w were read: a close
\* frame or a broken transport ends it (nothing follows either on the wire).
StateAfter(w) ==
    IF w = <<>> \/ w[Len(w)].t = "data" THEN "open"
    ELSE IF w[Len(w)].t = "close" THEN "closedOK" ELSE "closedErr"

\* The loop reads what has arrived on an open connection: the chunks are
\* queued for the handler in their order of arrival.
TransferData(c) ==
    /\ LoopFree
    /\ state[c] = "open"
    /\ wire[c] # <<>>
    /\ wire' = [wire EXCEPT ![c] = <<>>]
    /\ messages' = [messages EXCEPT ![c] = @ \o Payloads(wire[c])]
    /\ state' = [state EXCEPT ![c] = StateAfter(wire[c])]
    /\ UNCHANGED <<mainVars, sigVars, running, client, clientSent,
                   pc, cur, received, sent, log>>

\* RecvMessage taking the newest queued chunk instead of the oldest.
RecvNewest(c) ==
    /\ LoopFree
    /\ pc[c] = "recv"
    /\ messages[c] # <<>>
    /\ cur' = [cur EXCEPT ![c] = messages[c][Len(messages[c])]]
    /\ messages' = [messages EXCEPT ![c] = SubSeq(@, 1, Len(@) - 1)]
    /\ pc' = [pc EXCEPT ![c] = "recognize"]
    /\ running' = c
    /\ UNCHANGED <<mainVars, sigVars, peerVars, state, received, sent, log>>

\* RecvMessage by a handler that takes queued chunks after it has returned.
RecvAfterReturn(c) ==
    /\ LoopFree
    /\ pc[c] \in {"recv", "done"}
    /\ messages[c] # <<>>
    /\ cur' = [cur EXCEPT ![c] = Head(messages[c])]
    /\ messages' = [messages EXCEPT ![c] = Tail(@)]
    /\ pc' = [pc EXCEPT ![c] = "recognize"]
    /\ running' = c
    /\ UNCHANGED <<mainVars, sigVars, peerVars, state, received, sent, log>>

\* `async for` yields the next chunk; lines 16-17 run with no await, so the
\* handler enters the blocking recognizer call in the same step.
RecvMessage(c) ==
    /\ LoopFree
    /\ pc[c] = "recv"
    /\ messages[c] # <<>>
    /\ cur' = [cur EXCEPT ![c] = Head(messages[c])]
    /\ messages' = [messages EXCEPT ![c] = Tail(@)]
    /\ pc' = [pc EXCEPT ![c] = "recognize"]
    /\ running' = c
    /\ UNCHANGED <<mainVars, sigVars, peerVars, state, received, sent, log>>

\* The connection closed with code 1000: the iterator ends, the loop of line
\* 13 is left normally and the handler returns.
RecvClosedOK(c) ==
    /\ LoopFree
    /\ pc[c] = "recv"
    /\ messages[c] = <<>>
    /\ state[c] = "closedOK"
    /\ pc' = [pc EXCEPT ![c] = "done"]
    /\ UNCHANGED <<mainVars, sigVars, running, peerVars,
                   state, messages, cur, received, sent, log>>

\* RecvClosedError without the except clause of line 24: the exception leaves
\* the handler.
RecvClosedErrorUncaught(c) ==
    /\ LoopFree
    /\ pc[c] = "recv"
    /\ messages[c] = <<>>
    /\ state[c] = "closedErr"
    /\ pc' = [pc EXCEPT ![c] = "failed"]
    /\ UNCHANGED <<mainVars, sigVars, running, peerVars,
                   state, messages, cur, received, sent, log>>

\* The connection broke: the iterator raises ConnectionClosed, caught on
\* line 24; line 25 prints and the handler returns.
RecvClosedError(c) ==
    /\ LoopFree
    /\ pc[c] = "recv"
    /\ messages[c] = <<>>
    /\ state[c] = "closedErr"
    /\ pc' = [pc EXCEPT ![c] = "done"]
    /\ log' = [log EXCEPT ![c] = Append(@, "closed")]
    /\ UNCHANGED <<mainVars, sigVars, running, peerVars,
                   state, messages, cur, received, sent>>

\* Send writing the message to every open connection.
SendToAll(c, msg) ==
    sent' = [d \in Conns |-> IF d = c \/ state[d] = "open"
                             THEN Append(sent[d], msg) ELSE sent[d]]

\* websocket.send(msg) on connection c.
Send(c, msg) ==
    sent' = [sent EXCEPT ![c] = Append(@, msg)]

\* ReturnOk swallowing the failure of the send: the handler stays in its loop.
ReturnOkIgnoringClosed(c) ==
    /\ running = c
    /\ pc[c] = "recognize"
    /\ running' = NoOne
    /\ received' = [received EXCEPT ![c] = Append(@, [audio |-> cur[c], result |-> Ok])]
    /\ IF state[c] = "open" THEN Send(c, Dumps(Text(cur[c]))) ELSE UNCHANGED sent
    /\ pc' = [pc EXCEPT ![c] = "recv"]
    /\ log' = [log EXCEPT ![c] = Append(@, "recognized")]
    /\ UNCHANGED <<mainVars, sigVars, peerVars, state, messages, cur>>

\* ReturnOk handing the send to a task it does not await: the handler goes on
\* before the transcript is written.
ReturnOkUnawaited(c) ==
    /\ running = c
    /\ pc[c] = "recognize"
    /\ running' = NoOne
    /\ received' = [received EXCEPT ![c] = Append(@, [audio |-> cur[c], result |-> Ok])]
    /\ pc' = [pc EXCEPT ![c] = "recv"]
    /\ log' = [log EXCEPT ![c] = Append(@, "recognized")]
    /\ UNCHANGED <<mainVars, sigVars, peerVars, state, messages, cur, sent>>

\* The recognizer answered with a transcript: lines 18-19.  The send raises
\* ConnectionClosed when the library has seen the connection close.
ReturnOk(c) ==
    /\ running = c
    /\ pc[c] = "recognize"
    /\ running' = NoOne
    /\ received' = [received EXCEPT ![c] = Append(@, [audio |-> cur[c], result |-> Ok])]
    /\ IF state[c] = "open"
       THEN /\ Send(c, Dumps(Text(cur[c])))
            /\ pc' = [pc EXCEPT ![c] = "recv"]
            /\ log' = [log EXCEPT ![c] = Append(@, "recognized")]
       ELSE /\ UNCHANGED sent
            /\ pc' = [pc EXCEPT ![c] = "done"]
            /\ log' = [log EXCEPT ![c] = Append(Append(@, "recognized"), "closed")]
    /\ UNCHANGED <<mainVars, sigVars, peerVars, state, messages, cur>>

\* ReturnUnknownValue telling the client about the failure.
ReturnUnknownValueNotifying(c) ==
    /\ running = c
    /\ pc[c] = "recognize"
    /\ running' = NoOne
    /\ received' = [received EXCEPT ![c] =
                       Append(@, [audio |-> cur[c], result |-> UnknownValueError])]
    /\ pc' = [pc EXCEPT ![c] = "recv"]
    /\ log' = [log EXCEPT ![c] = Append(@, "not_understood")]
    /\ sent' = [sent EXCEPT ![c] = Append(@, [error |-> "not_understood"])]
    /\ UNCHANGED <<mainVars, sigVars, peerVars, state, messages, cur>>

\* sr.UnknownValueError: lines 20-21, then the next iteration.
ReturnUnknownValue(c) ==
    /\ running = c
    /\ pc[c] = "recognize"
    /\ running' = NoOne
    /\ received' = [received EXCEPT ![c] =
                       Append(@, [audio |-> cur[c], result |-> UnknownValueError])]
    /\ pc' = [pc EXCEPT ![c] = "recv"]
    /\ log' = [log EXCEPT ![c] = Append(@, "not_understood")]
    /\ UNCHANGED <<mainVars, sigVars, peerVars, state, messages, cur, sent>>

\* ReturnRequestError without the except clause of line 22: the error leaves
\* the handler.
ReturnRequestErrorUncaught(c) ==
    /\ running = c
    /\ pc[c] = "recognize"
    /\ running' = NoOne
    /\ received' = [received EXCEPT ![c] =
                       Append(@, [audio |-> cur[c], result |-> RequestError])]
    /\ pc' = [pc EXCEPT ![c] = "failed"]
    /\ state' = [state EXCEPT ![c] = IF @ = "open" THEN "closedErr" ELSE @]
    /\ client' = [client EXCEPT ![c] = "closed"]
    /\ UNCHANGED <<mainVars, sigVars, clientSent, wire, messages, cur, sent, log>>

\* ReturnRequestError putting the chunk back to be recognized again.
ReturnRequestErrorRetrying(c) ==
    /\ running = c
    /\ pc[c] = "recognize"
    /\ running' = NoOne
    /\ received' = [received EXCEPT ![c] =
                       Append(@, [audio |-> cur[c], result |-> RequestError])]
    /\ pc' = [pc EXCEPT ![c] = "recv"]
    /\ log' = [log EXCEPT ![c] = Append(@, "api_error")]
    /\ messages' = [messages EXCEPT ![c] = <<cur[c]>> \o @]
    /\ UNCHANGED <<mainVars, sigVars, peerVars, state, cur, sent>>

\* sr.RequestError: lines 22-23, then the next iteration.
ReturnRequestError(c) ==
    /\ running = c
    /\ pc[c] = "recognize"
    /\ running' = NoOne
    /\ received' = [received EXCEPT ![c] =
                       Append(@, [audio |-> cur[c], result |-> RequestError])]
    /\ pc' = [pc EXCEPT ![c] = "recv"]
    /\ log' = [log EXCEPT ![c] = Append(@, "api_error")]
    /\ UNCHANGED <<mainVars, sigVars, peerVars, state, messages, cur, sent>>

\* Any other exception of lines 16-17 matches no except clause: it leaves the
\* handler, and the server closes the connection (close code 1011), which
\* ends the peer's side of it too.
ReturnOtherError(c) ==
    /\ running = c
    /\ pc[c] = "recognize"
    /\ running' = NoOne
    /\ received' = [received EXCEPT ![c] =
                       Append(@, [audio |-> cur[c], result |-> OtherError])]
    /\ pc' = [pc EXCEPT ![c] = "failed"]
    /\ state' = [state EXCEPT ![c] = IF @ = "open" THEN "closedErr" ELSE @]
    /\ client' = [client EXCEPT ![c] = "closed"]
    /\ UNCHANGED <<mainVars, sigVars, clientSent, wire, messages, cur, sent, log>>

Next ==
    \/ Bind
    \/ BindFail
    \/ Sigterm
    \/ HandleSignal
    \/ \E c \in Conns : Connect(c)
    \/ \E c \in Conns : ClientSend(c)
    \/ \E c \in Conns : ClientClose(c, CloseFrame)
    \/ \E c \in Conns : ClientClose(c, AbortFrame)
    \/ \E c \in Conns : Accept(c)
    \/ \E c \in Conns : TransferData(c)
    \/ \E c \in Conns : RecvMessage(c)
    \/ \E c \in Conns : RecvClosedOK(c)
    \/ \E c \in Conns : RecvClosedError(c)
    \/ \E c \in Conns : ReturnOk(c)
    \/ \E c \in Conns : ReturnUnknownValue(c)
    \/ \E c \in Conns : ReturnRequestError(c)
    \/ \E c \in Conns : ReturnOtherError(c)

Spec == Init /\ [][Next]_vars

\* One connection streaming chunks to a server that started: the behaviours
\* of Spec in which a single peer connects and no signal is delivered.
First == 1

StreamSend == SendChunk(First, MaxStream)

SessionNext ==
    \/ Bind
    \/ Connect(First)
    \/ StreamSend
    \/ ClientClose(First, CloseFrame)
    \/ ClientClose(First, AbortFrame)
    \/ Accept(First)
    \/ TransferData(First)
    \/ RecvMessage(First)
    \/ RecvClosedOK(First)
    \/ RecvClosedError(First)
    \/ ReturnOk(First)
    \/ ReturnUnknownValue(First)
    \/ ReturnRequestError(First)
    \/ ReturnOtherError(First)

SessionSpec == Init /\ [][SessionNext]_vars

\* ---- properties ------------------------------------------------------------
Last(q) == q[Len(q)]

IsPrefix(p, q) == Len(p) <= Len(q) /\ SubSeq(q, 1, Len(p)) = p

\* The message that answers chunk a.
Answer(a) == Dumps(Text(a))

Failures == {UnknownValueError, RequestError}

\* The answers owed for the processed chunks r: one per recognized chunk.
RECURSIVE Owed(_)
Owed(r) ==
    IF r = <<>> THEN <<>>
    ELSE IF r[1].result = Ok THEN <<Answer(r[1].audio)>> \o Owed(Tail(r))
    ELSE Owed(Tail(r))

\* The handler of c has consumed everything its peer sent and waits for more
\* on a connection that never closed.
CaughtUp(c) ==
    /\ pc[c] = "recv"
    /\ state[c] = "open"
    /\ wire[c] = <<>>
    /\ messages[c] = <<>>

AllRecognized(c) == \A i \in 1..Len(received[c]) : received[c][i].result = Ok

\* C1: once the handler has processed the N chunks sent on a connection that
\* stays open, all of them recognized, it has sent exactly N messages, the
\* i-th being the transcript of the i-th chunk sent.
C1_TranscriptPerChunkInOrder ==
    \A c \in Conns :
        (CaughtUp(c) /\ AllRecognized(c)) =>
            sent[c] = [i \in 1..Len(clientSent[c]) |-> Answer(clientSent[c][i])]

C1_Witness ==
    \E c \in Conns :
        CaughtUp(c) /\ AllRecognized(c) /\ Len(clientSent[c]) >= 3 /\ Len(sent[c]) >= 3

\* C2: the messages sent on a connection are the transcripts of its recognized
\* chunks, in arrival order and one each, and nothing else: while the handler
\* has not returned they are exactly those, and at all times a prefix of them.
C2_OnlyRecognizedAnswered ==
    \A c \in Conns :
        /\ IsPrefix(sent[c], Owed(received[c]))
        /\ pc[c] # "done" => sent[c] = Owed(received[c])

C2_Witness ==
    \E c \in Conns :
        /\ CaughtUp(c)
        /\ Len(received[c]) = 3
        /\ received[c][1].result = Ok
        /\ received[c][2].result \in Failures
        /\ received[c][3].result = Ok
        /\ Len(sent[c]) = 2

\* C3: when recognition of a chunk fails (UnknownValueError or RequestError)
\* the handler goes on to wait for the next chunk: the step ends neither the
\* handler nor the connection and drops no queued chunk.
C3_FailureKeepsSession ==
    [][\A c \in Conns :
          (/\ pc[c] = "recognize"
           /\ received'[c] # received[c]
           /\ Last(received'[c]).result \in Failures)
          => (/\ pc'[c] = "recv"
              /\ state'[c] = state[c]
              /\ messages'[c] = messages[c]
              /\ sent'[c] = sent[c])]_vars

C3_Witness ==
    \E c \in Conns :
        /\ Len(received[c]) >= 2
        /\ received[c][1].result = RequestError
        /\ received[c][2].result = Ok
        /\ state[c] = "open"
        /\ sent[c] = <<Answer(clientSent[c][2])>>

\* C4: while the handler of one connection is inside its recognition call,
\* the handler of any other connection that has a chunk queued can take it
\* and start its own recognition, and the server can accept a connection
\* that is waiting to be accepted.
C4_SessionsIndependent ==
    \A c \in Conns :
        pc[c] = "recognize" =>
            /\ \A d \in Conns \ {c} :
                   (pc[d] = "recv" /\ messages[d] # <<>>) => ENABLED RecvMessage(d)
            /\ \A d \in Conns \ {c} :
                   (serverState = "Accepting" /\ client[d] = "connecting")
                       => ENABLED Accept(d)

\* C5: once main has received the termination signal, no connection is
\* accepted and no handler is started.
C5_NoAcceptAfterSignal ==
    [][stop = "FINISHED" =>
          \A c \in Conns : pc[c] = "none" => pc'[c] = "none"]_vars

\* C6: once main has received the termination signal the server is no longer
\* Accepting (it has moved on to Draining, then Stopped).
C6_SignalStartsShutdown ==
    stop = "FINISHED" => serverState # "Accepting"

\* C7: a termination signal handled after the first one changes nothing: not
\* the shutdown state, not the server state, no session, and no error is
\* raised.
C7_SecondSignalNoEffect ==
    [][(stop = "FINISHED" /\ sigPending' < sigPending) =>
          /\ stop' = stop
          /\ loopErrors' = loopErrors
          /\ UNCHANGED <<mainVars, running, sessVars>>]_vars

\* C8: delivery and handling of the termination signal leave every session
\* as it is (no handler ends, no connection closes, the call in progress goes
\* on), and a recognition that returns a transcript after the signal still
\* sends it when the connection is open.
C8_SignalAbortsNothing ==
    [][/\ (sigCount' # sigCount \/ sigPending' # sigPending) =>
             UNCHANGED <<running, sessVars>>
       /\ \A c \in Conns :
             (/\ sigCount > 0
              /\ pc[c] = "recognize"
              /\ state[c] = "open"
              /\ received'[c] # received[c]
              /\ Last(received'[c]).result = Ok)
             => (/\ sent'[c] = Append(sent[c], Answer(cur[c]))
                 /\ pc'[c] = "recv")]_vars

C8_Witness ==
    \E c \in Conns :
        /\ pc[c] = "recognize"
        /\ state[c] = "open"
        /\ sigPending > 0

\* The per-connection state of d.
Session(d) ==
    <<client[d], clientSent[d], wire[d], state[d], messages[d], pc[d], cur[d],
      received[d], sent[d], log[d]>>

\* C9: a handler that finds its connection closed while it waits for the next
\* chunk returns (it does not raise), and the step changes no other session
\* and nothing of the server.
C9_CloseEndsOnlyThatSession ==
    [][\A c \in Conns :
          (pc[c] = "recv" /\ pc'[c] \notin {"recv", "recognize"}) =>
              /\ pc'[c] = "done"
              /\ \A d \in Conns \ {c} : Session(d)' = Session(d)
              /\ UNCHANGED <<mainVars, sigVars, running>>]_vars

C9_Witness ==
    \E c \in Conns, d \in Conns :
        /\ c # d
        /\ pc[c] = "done"
        /\ state[c] = "closedErr"
        /\ Len(received[c]) >= 1
        /\ state[d] = "open"
        /\ pc[d] = "recv"
        /\ sent[d] # <<>>

\* C10: every message sent on a connection is the transcript of a chunk that
\* was received on that same connection.
C10_NoCrossDelivery ==
    \A c \in Conns :
        \A i \in 1..Len(sent[c]) :
            \E k \in 1..Len(received[c]) :
                /\ received[c][k].audio \in {clientSent[c][j] : j \in 1..Len(clientSent[c])}
                /\ sent[c][i] = Answer(received[c][k].audio)

C10_Witness ==
    \E c \in Conns, d \in Conns :
        /\ c # d
        /\ state[c] = "open" /\ state[d] = "open"
        /\ sent[c] # <<>> /\ sent[d] # <<>>

\* C11: whatever the outcome of processing a chunk, a handler whose
\* connection is open stays in its loop: it goes back to waiting for the next
\* chunk.
C11_OnlyClosureEndsSession ==
    [][\A c \in Conns :
          (pc[c] = "recognize" /\ state[c] = "open" /\ pc'[c] # "recognize")
              => pc'[c] = "recv"]_vars

\* C12: when the send of a transcript fails because the connection is closed,
\* the handler returns in that step without raising: nothing is written, the
\* chunks still queued stay unrecognized, and the close is logged.
C12_WriteFailureEndsSession ==
    [][\A c \in Conns :
          (/\ pc[c] = "recognize"
           /\ state[c] # "open"
           /\ received'[c] # received[c]
           /\ Last(received'[c]).result = Ok)
          => (/\ pc'[c] = "done"
              /\ sent'[c] = sent[c]
              /\ messages'[c] = messages[c]
              /\ running' = NoOne
              /\ Last(log'[c]) = "closed")]_vars

C12_Witness ==
    \E c \in Conns :
        /\ pc[c] = "done"
        /\ received[c] # <<>>
        /\ Last(received[c]).result = Ok
        /\ Len(sent[c]) + 1 = Len(Owed(received[c]))
        /\ messages[c] # <<>>

\* C13: a handler inside the recognition call is processing the one chunk that
\* follows those it has resolved: every earlier chunk of its connection has its
\* outcome and, if recognized, its transcript written, and no other handler is
\* inside the call.
C13_OneUnitAtATime ==
    \A c \in Conns :
        pc[c] = "recognize" =>
            /\ running = c
            /\ Len(received[c]) < Len(clientSent[c])
            /\ cur[c] = clientSent[c][Len(received[c]) + 1]
            /\ sent[c] = Owed(received[c])

C13_Witness ==
    \E c \in Conns :
        /\ pc[c] = "recognize"
        /\ Len(received[c]) >= 1
        /\ received[c][1].result = Ok
        /\ sent[c] # <<>>

\* C14: a handler that has returned because its connection closed has printed
\* the connection-closed line as its last line.
C14_CloseIsLogged ==
    \A c \in Conns : pc[c] = "done" => (log[c] # <<>> /\ Last(log[c]) = "closed")

\* C15: the chunks passed to the recognizer are the chunks sent on the
\* connection, each once and in order, whatever their outcome; a handler that
\* has caught up with its peer has passed every chunk exactly once.
C15_NoRetry ==
    \A c \in Conns :
        /\ Len(received[c]) <= Len(clientSent[c])
        /\ \A i \in 1..Len(received[c]) : received[c][i].audio = clientSent[c][i]
        /\ CaughtUp(c) => Len(received[c]) = Len(clientSent[c])

C15_Witness ==
    \E c \in Conns :
        /\ CaughtUp(c)
        /\ Len(received[c]) >= 3
        /\ received[c][1].result = RequestError
        /\ received[c][2].result = UnknownValueError
        /\ received[c][3].result = Ok

\* C16: the server accepts only after a bind that succeeded, and a failed bind
\* is final: after it no connection is open or accepted, no handler was
\* started, and the process takes no further step.
C16_BindFailureIsFatal ==
    /\ serverState = "Accepting" => banner
    /\ (\E c \in Conns : pc[c] # "none" \/ state[c] # "none") => banner
    /\ serverState = "BindFailed" =>
          /\ ~banner
          /\ \A c \in Conns : pc[c] = "none" /\ state[c] = "none" /\ client[c] = "idle"
          /\ ~ENABLED Next

C16_Witness == serverState = "BindFailed"

\* C17: a handler that has left its loop stays so: for its connection no
\* recognition is started, no outcome is recorded and nothing is sent any
\* more, and the chunks that were queued for it stay queued.
C17_EndedIsAbsorbing ==
    [][\A c \in Conns :
          pc[c] \in {"done", "failed"} =>
              /\ pc'[c] = pc[c]
              /\ running' # c
              /\ received'[c] = received[c]
              /\ sent'[c] = sent[c]
              /\ messages'[c] = messages[c]]_vars

C17_Witness ==
    \E c \in Conns :
        /\ pc[c] = "done"
        /\ messages[c] # <<>>
        /\ Len(received[c]) + Len(messages[c]) = Len(clientSent[c])
        /\ Len(clientSent[c]) >= 3

TypeOK ==
    /\ serverState \in {"Starting", "Accepting", "BindFailed"}
    /\ stop \in {"PENDING", "FINISHED"}
    /\ running \in Conns \cup {NoOne}
    /\ \A c \in Conns : pc[c] \in {"none", "recv", "recognize", "done", "failed"}
    /\ \A c \in Conns : state[c] \in {"none", "open", "closedOK", "closedErr"}
====
